---- MODULE Spec2Model ----
(***************************************************************************)
(* A model of locate-path (src/index.js): the TTL-LRU cache class, the two *)
(* process-wide cache instances, the synchronous locator and the           *)
(* asynchronous locator driven by p-locate.                                *)
(*                                                                         *)
(* JavaScript values are written as strings: "true", "false", "undefined". *)
(* A cache (a Map in insertion order) is a sequence of entries             *)
(* [key, value, timestamp], oldest insertion first.                        *)
(***************************************************************************)
EXTENDS Integers, Sequences, FiniteSets, TLC

(***************************************************************************)
(* Bounds of the model.  The source builds both caches with maxSize 500    *)
(* and ttl 5000 ms (src/index.js:72-73); the class takes both as           *)
(* constructor arguments, and the model instantiates it at a small scale.  *)
(***************************************************************************)
MaxSize == 2

TTL == 1

MaxLen == 2

MaxConcurrency == 1

\* the clock runs just far enough for an entry written at time 0 to expire
MaxTime == TTL + 1

(***************************************************************************)
(* Inputs.                                                                 *)
(***************************************************************************)
Cwd == "/w"

Names == <<"a", "b", "c", "d", "e", "f">>

\* one more relative candidate than a cache holds
RelativeCandidates == {Names[i] : i \in 1..(MaxSize + 1)}

AbsoluteCandidates == {"/w/a"}

Candidates == RelativeCandidates \cup AbsoluteCandidates

TypeSelectors == {"file", "directory", "both"}

\* a type selector that typeMappings does not know
InvalidTypes == {"bogus"}

Kinds == {"none", "file", "dir", "symfile", "denied"}

\* path.isAbsolute: the candidates that start with "/"
IsAbsolute(p) == p \in AbsoluteCandidates

\* path.resolve(cwd, path_) for a relative path_ without "." or ".." segments
Resolve(cwd, p) == cwd \o "/" \o p

ResolvedPath(cwd, p) == IF IsAbsolute(p) THEN p ELSE Resolve(cwd, p)

ResolvedPaths == {ResolvedPath(Cwd, p) : p \in Candidates}

BoolString(b) == IF b THEN "true" ELSE "false"

\* the key without the type selector
CacheKeyNoType(resolvedPath, type, allowSymlinks) ==
    resolvedPath \o ":" \o BoolString(allowSymlinks)

\* `${resolvedPath}:${type}:${allowSymlinks}`
CacheKey(resolvedPath, type, allowSymlinks) ==
    resolvedPath \o ":" \o type \o ":" \o BoolString(allowSymlinks)

(***************************************************************************)
(* checkType and matchType.                                                *)
(***************************************************************************)
typeMappings == {"directory", "file"}

CheckTypeMapped(type) == type \in typeMappings

\* checkType that lets every selector through
CheckTypeLax(type) == TRUE

\* TRUE when checkType returns, FALSE when it throws
CheckType(type) == type = "both" \/ type \in typeMappings

\* What stat (allowSymlinks) or lstat (~allowSymlinks) answers for a path of
\* the given kind: "enoent", "error" (any other failure), or the metadata
\* "file", "dir", "other" (a symbolic link seen by lstat is neither).
StatOf(kind, allowSymlinks) ==
    CASE kind = "none" -> "enoent"
      [] kind = "denied" -> "error"
      [] kind = "file" -> "file"
      [] kind = "dir" -> "dir"
      [] kind = "symfile" -> IF allowSymlinks THEN "file" ELSE "other"

MatchType(type, stat) ==
    IF type = "both" THEN stat = "file" \/ stat = "dir"
    ELSE IF type = "file" THEN stat = "file"
    ELSE stat = "dir"

(***************************************************************************)
(* class LRUCache                                                          *)
(***************************************************************************)
Has(cache, key) == \E i \in 1..Len(cache) : cache[i].key = key

EntryOf(cache, key) == cache[CHOOSE i \in 1..Len(cache) : cache[i].key = key]

Delete(cache, key) == SelectSeq(cache, LAMBDA e : e.key # key)

KeysOf(cache) == [i \in 1..Len(cache) |-> cache[i].key]

KeySet(cache) == {cache[i].key : i \in 1..Len(cache)}

\* get without the move to most-recently-used
LRUGetNoTouch(cache, key, t) ==
    IF ~Has(cache, key) THEN [cache |-> cache, value |-> "undefined"]
    ELSE LET entry == EntryOf(cache, key) IN
         IF t - entry.timestamp > TTL
         THEN [cache |-> Delete(cache, key), value |-> "undefined"]
         ELSE [cache |-> cache, value |-> entry.value]

\* get that renews the timestamp of the entry it hits
LRUGetRenew(cache, key, t) ==
    IF ~Has(cache, key) THEN [cache |-> cache, value |-> "undefined"]
    ELSE LET entry == EntryOf(cache, key) IN
         IF t - entry.timestamp > TTL
         THEN [cache |-> Delete(cache, key), value |-> "undefined"]
         ELSE [cache |-> Append(Delete(cache, key),
                                [entry EXCEPT !.timestamp = t]),
               value |-> entry.value]

\* LRUCache.get(key) at time t: the cache afterwards and the value returned
LRUGet(cache, key, t) ==
    IF ~Has(cache, key) THEN [cache |-> cache, value |-> "undefined"]
    ELSE LET entry == EntryOf(cache, key) IN
         IF t - entry.timestamp > TTL
         THEN [cache |-> Delete(cache, key), value |-> "undefined"]
         ELSE [cache |-> Append(Delete(cache, key), entry),
               value |-> entry.value]

\* set that never evicts
LRUSetNoEvict(cache, key, value, t) ==
    Append(Delete(cache, key), [key |-> key, value |-> value, timestamp |-> t])

\* LRUCache.set(key, value) at time t: the cache afterwards
LRUSet(cache, key, value, t) ==
    LET kept == IF Has(cache, key) THEN Delete(cache, key)
                ELSE IF Len(cache) >= MaxSize THEN Tail(cache)
                ELSE cache
    IN Append(kept, [key |-> key, value |-> value, timestamp |-> t])

LRUClear(cache) == << >>

(***************************************************************************)
(* State.                                                                  *)
(*   statCache, negativeCache  the two process-wide LRUCache instances     *)
(*   now        Date.now()                                                 *)
(*   fs         the filesystem: the kind of each resolved path             *)
(*   calls      the locate calls made so far, each with the state of its   *)
(*              per-candidate checks and its outcome                       *)
(*   lastOp     the last direct LRUCache operation, what it returned and   *)
(*              whether the cache held its key before                      *)
(*   recency    keys in the order of their last successful get or set      *)
(***************************************************************************)
VARIABLES statCache, negativeCache, now, fs, calls, lastOp, recency

vars == <<statCache, negativeCache, now, fs, calls, lastOp, recency>>

RECURSIVE SeqsUpTo(_, _)
SeqsUpTo(S, n) ==
    IF n = 0 THEN {<< >>}
    ELSE LET shorter == SeqsUpTo(S, n - 1)
         IN shorter \cup {Append(s, x) : s \in {t \in shorter : Len(t) = n - 1}, x \in S}

Min(S) == CHOOSE x \in S : \A y \in S : x <= y

(***************************************************************************)
(* The per-candidate check of both locators.                               *)
(***************************************************************************)
KeyOf(o, path_) == CacheKey(ResolvedPath(o.cwd, path_), o.type, o.allowSymlinks)

\* the consultation made whether or not caching is enabled
CheckCachesAlways(path_, o, sc, nc, t) ==
    LET cacheKey == KeyOf(o, path_)
        n == LRUGet(nc, cacheKey, t)
        s == LRUGet(sc, cacheKey, t)
    IN IF n.value = "false"
       THEN [how |-> "neg", value |-> "false", sc |-> sc, nc |-> n.cache,
             expired |-> FALSE]
       ELSE IF s.value # "undefined"
       THEN [how |-> "pos", value |-> s.value, sc |-> s.cache, nc |-> n.cache,
             expired |-> Has(nc, cacheKey) /\ n.value = "undefined"]
       ELSE [how |-> "probe", value |-> "undefined", sc |-> s.cache, nc |-> n.cache,
             expired |-> Has(nc, cacheKey) \/ Has(sc, cacheKey)]

\* the consultation with the positive cache asked first
CheckCachesPositiveFirst(path_, o, sc, nc, t) ==
    LET cacheKey == KeyOf(o, path_)
        n == LRUGet(nc, cacheKey, t)
        s == LRUGet(sc, cacheKey, t)
    IN IF ~o.useCache
       THEN [how |-> "probe", value |-> "undefined", sc |-> sc, nc |-> nc,
             expired |-> FALSE]
       ELSE IF s.value # "undefined"
       THEN [how |-> "pos", value |-> s.value, sc |-> s.cache, nc |-> nc,
             expired |-> FALSE]
       ELSE IF n.value = "false"
       THEN [how |-> "neg", value |-> "false", sc |-> s.cache, nc |-> n.cache,
             expired |-> Has(sc, cacheKey)]
       ELSE [how |-> "probe", value |-> "undefined", sc |-> s.cache, nc |-> n.cache,
             expired |-> Has(nc, cacheKey) \/ Has(sc, cacheKey)]

\* The cache consultation that opens each check (locatePath 141-152,
\* locatePathSync 200-215): how the check is decided ("neg", "pos", or
\* "probe" when the filesystem must be asked), the cached value, both
\* caches afterwards, and whether a get found an entry whose time was up.
CheckCaches(path_, o, sc, nc, t) ==
    LET cacheKey == KeyOf(o, path_)
        n == LRUGet(nc, cacheKey, t)
        s == LRUGet(sc, cacheKey, t)
    IN IF ~o.useCache
       THEN [how |-> "probe", value |-> "undefined", sc |-> sc, nc |-> nc,
             expired |-> FALSE]
       ELSE IF n.value = "false"
       THEN [how |-> "neg", value |-> "false", sc |-> sc, nc |-> n.cache,
             expired |-> FALSE]
       ELSE IF s.value # "undefined"
       THEN [how |-> "pos", value |-> s.value, sc |-> s.cache, nc |-> n.cache,
             expired |-> Has(nc, cacheKey) /\ n.value = "undefined"]
       ELSE [how |-> "probe", value |-> "undefined", sc |-> s.cache, nc |-> n.cache,
             expired |-> Has(nc, cacheKey) \/ Has(sc, cacheKey)]

\* checkPathSync without its catch: a failure of stat other than a missing
\* path comes out of the check as it is
CheckPathSyncNoCatch(path_, o, f, sc, nc, t) ==
    LET cacheKey == KeyOf(o, path_)
        stat == StatOf(f[ResolvedPath(o.cwd, path_)], o.allowSymlinks)
        miss == [value |-> "false", sc |-> sc,
                 nc |-> IF o.useCache THEN LRUSet(nc, cacheKey, "false", t) ELSE nc]
    IN IF stat = "error" THEN [value |-> "error", sc |-> sc, nc |-> nc]
       ELSE IF stat = "enoent" THEN miss
       ELSE IF MatchType(o.type, stat)
       THEN [value |-> "true",
             sc |-> IF o.useCache THEN LRUSet(sc, cacheKey, "true", t) ELSE sc,
             nc |-> nc]
       ELSE miss

\* checkPathSync: statSync/lstatSync with throwIfNoEntry: false returns
\* undefined for a missing path and throws on any other failure.
CheckPathSync(path_, o, f, sc, nc, t) ==
    LET cacheKey == KeyOf(o, path_)
        stat == StatOf(f[ResolvedPath(o.cwd, path_)], o.allowSymlinks)
        miss == [value |-> "false", sc |-> sc,
                 nc |-> IF o.useCache THEN LRUSet(nc, cacheKey, "false", t) ELSE nc]
    IN IF stat = "error" THEN miss
       ELSE IF stat = "enoent" THEN miss
       ELSE IF MatchType(o.type, stat)
       THEN [value |-> "true",
             sc |-> IF o.useCache THEN LRUSet(sc, cacheKey, "true", t) ELSE sc,
             nc |-> nc]
       ELSE miss

\* A probe that writes whatever it found to the positive cache.
ProbeAsyncPositiveOnly(path_, o, f, sc, nc, t) ==
    LET cacheKey == KeyOf(o, path_)
        stat == StatOf(f[ResolvedPath(o.cwd, path_)], o.allowSymlinks)
        result == IF stat \notin {"error", "enoent"} /\ MatchType(o.type, stat)
                  THEN "true" ELSE "false"
    IN [value |-> result,
        sc |-> IF o.useCache THEN LRUSet(sc, cacheKey, result, t) ELSE sc,
        nc |-> nc]

\* A probe that writes the negative cache whatever it found.
ProbeAsyncAlwaysNegative(path_, o, f, sc, nc, t) ==
    LET cacheKey == KeyOf(o, path_)
        stat == StatOf(f[ResolvedPath(o.cwd, path_)], o.allowSymlinks)
        miss == [value |-> "false", sc |-> sc,
                 nc |-> IF o.useCache THEN LRUSet(nc, cacheKey, "false", t) ELSE nc]
    IN IF stat \in {"error", "enoent"} THEN miss
       ELSE IF MatchType(o.type, stat)
       THEN [value |-> "true",
             sc |-> IF o.useCache THEN LRUSet(sc, cacheKey, "true", t) ELSE sc,
             nc |-> miss.nc]
       ELSE miss

\* A probe that answers and leaves both caches as they were.
ProbeAsyncNoStore(path_, o, f, sc, nc, t) ==
    LET stat == StatOf(f[ResolvedPath(o.cwd, path_)], o.allowSymlinks)
    IN [value |-> IF stat \notin {"error", "enoent"} /\ MatchType(o.type, stat)
                  THEN "true" ELSE "false",
        sc |-> sc, nc |-> nc]

\* The probe of the asynchronous check (locatePath 154-175): stat/lstat
\* rejects for a missing path as for any other failure.
ProbeAsync(path_, o, f, sc, nc, t) ==
    LET cacheKey == KeyOf(o, path_)
        stat == StatOf(f[ResolvedPath(o.cwd, path_)], o.allowSymlinks)
        miss == [value |-> "false", sc |-> sc,
                 nc |-> IF o.useCache THEN LRUSet(nc, cacheKey, "false", t) ELSE nc]
    IN IF stat \in {"error", "enoent"} THEN miss
       ELSE IF MatchType(o.type, stat)
       THEN [value |-> "true",
             sc |-> IF o.useCache THEN LRUSet(sc, cacheKey, "true", t) ELSE sc,
             nc |-> nc]
       ELSE miss

(***************************************************************************)
(* A call record.                                                          *)
(*   kind     "sync" or "async"                                            *)
(*   paths,o  the candidate list and the options                           *)
(*   st       per candidate: "queued" (its check has not started),         *)
(*            "running" (its probe is in flight), "true" or "false"        *)
(*   how      per candidate: "" (not examined), "neg", "pos" or "probe"    *)
(*   settled  the candidates' indexes in the order their checks settled    *)
(*   res      "pending", "failed" (the type selector was refused),         *)
(*            "found" (candidate number index) or "absent"                 *)
(*   raised   how a failure reaches the caller: "thrown" out of the call   *)
(*            itself, or "rejected" through the promise the call returned  *)
(*   cold     both caches were empty when the call was made                *)
(*   quiet    no check of an earlier call was unsettled when it was made   *)
(*   expired  one of its checks found a cache entry whose time was up      *)
(*   t0       the time when it was made                                    *)
(*   fsMoved  the filesystem has changed since it was made                 *)
(***************************************************************************)
Unsettled(c) == {i \in 1..Len(c.paths) : c.st[i] \in {"queued", "running"}}

Running(c) == {i \in 1..Len(c.paths) : c.st[i] = "running"}

Probes(c) == Cardinality({i \in 1..Len(c.paths) : c.how[i] = "probe"})

ResultOf(c) == IF c.res = "found" THEN c.paths[c.index] ELSE "undefined"

NewCall(kind, paths, o) ==
    [kind |-> kind, paths |-> paths, o |-> o,
     st |-> [i \in 1..Len(paths) |-> "queued"],
     how |-> [i \in 1..Len(paths) |-> ""],
     settled |-> << >>,
     res |-> "pending", index |-> 0, raised |-> "",
     cold |-> statCache = << >> /\ negativeCache = << >>,
     quiet |-> \A k \in 1..Len(calls) : Unsettled(calls[k]) = {} \/ calls[k].res = "failed",
     expired |-> FALSE, t0 |-> now, fsMoved |-> FALSE]

(***************************************************************************)
(* locatePathSync.  The loop over the candidates, from candidate i on:     *)
(* the call record and both caches when the function returns.              *)
(***************************************************************************)
\* the loop without its early return: the last match wins
RECURSIVE SyncLoopLast(_, _, _, _, _, _)
SyncLoopLast(c, i, f, sc, nc, t) ==
    IF i > Len(c.paths)
    THEN [call |-> [c EXCEPT !.res = IF c.index = 0 THEN "absent" ELSE "found"],
          sc |-> sc, nc |-> nc]
    ELSE LET path_ == c.paths[i]
             cached == CheckCaches(path_, c.o, sc, nc, t)
             probed == CheckPathSync(path_, c.o, f, cached.sc, cached.nc, t)
             value == IF cached.how = "probe" THEN probed.value ELSE cached.value
             sc1 == IF cached.how = "probe" THEN probed.sc ELSE cached.sc
             nc1 == IF cached.how = "probe" THEN probed.nc ELSE cached.nc
             c1 == [c EXCEPT !.how[i] = cached.how, !.st[i] = value,
                             !.expired = @ \/ cached.expired,
                             !.settled = Append(@, i),
                             !.index = IF value = "true" THEN i ELSE @]
         IN SyncLoopLast(c1, i + 1, f, sc1, nc1, t)

RECURSIVE SyncLoop(_, _, _, _, _, _)
SyncLoop(c, i, f, sc, nc, t) ==
    IF i > Len(c.paths)
    THEN [call |-> [c EXCEPT !.res = "absent"], sc |-> sc, nc |-> nc]
    ELSE LET path_ == c.paths[i]
             cached == CheckCaches(path_, c.o, sc, nc, t)
             probed == CheckPathSync(path_, c.o, f, cached.sc, cached.nc, t)
             value == IF cached.how = "probe" THEN probed.value ELSE cached.value
             sc1 == IF cached.how = "probe" THEN probed.sc ELSE cached.sc
             nc1 == IF cached.how = "probe" THEN probed.nc ELSE cached.nc
             c1 == [c EXCEPT !.how[i] = cached.how, !.st[i] = value,
                             !.expired = @ \/ cached.expired,
                             !.settled = Append(@, i)]
         IN IF value = "true"
            THEN [call |-> [c1 EXCEPT !.res = "found", !.index = i],
                  sc |-> sc1, nc |-> nc1]
            ELSE SyncLoop(c1, i + 1, f, sc1, nc1, t)

LocatePathSync(c, f, sc, nc, t) ==
    IF ~CheckType(c.o.type)
    THEN [call |-> [c EXCEPT !.res = "failed", !.raised = "thrown"],
          sc |-> sc, nc |-> nc]
    ELSE SyncLoop(c, 1, f, sc, nc, t)

(***************************************************************************)
(* locatePath.  The options handed to pLocate (line 176), and pLocate's    *)
(* protocol as the specification describes it: checks start in list order  *)
(* as slots free up, at most `concurrency` at once (no bound when it is    *)
(* left undefined, written 0); with preserveOrder (the default) a cursor   *)
(* advances past settled non-matches and reports the first match it        *)
(* reaches, without it the first check to settle true is reported.         *)
(***************************************************************************)
PLocateOptionsUnordered(o) ==
    [concurrency |-> o.concurrency, preserveOrder |-> "false"]

PLocateOptionsOrdered(o) ==
    [concurrency |-> o.concurrency, preserveOrder |-> "true"]

PLocateOptionsUnbounded(o) ==
    [concurrency |-> 0, preserveOrder |-> o.preserveOrder]

PLocateOptions(o) ==
    [concurrency |-> o.concurrency, preserveOrder |-> o.preserveOrder]

ConcurrencyLimit(c) ==
    LET given == PLocateOptions(c.o).concurrency
    IN IF given = 0 THEN Len(c.paths) ELSE given

PreserveOrder(c) == PLocateOptions(c.o).preserveOrder # "false"

\* The result selection after a check has settled: a call that has
\* resolved stays as it is.
Finder(c) ==
    IF c.res # "pending" THEN c
    ELSE IF PreserveOrder(c)
    THEN LET open == {i \in 1..Len(c.paths) : c.st[i] \in {"queued", "running", "true"}}
         IN IF open = {} THEN [c EXCEPT !.res = "absent"]
            ELSE IF c.st[Min(open)] = "true"
            THEN [c EXCEPT !.res = "found", !.index = Min(open)]
            ELSE c
    ELSE LET hits == {n \in 1..Len(c.settled) : c.st[c.settled[n]] = "true"}
         IN IF hits # {}
            THEN [c EXCEPT !.res = "found", !.index = c.settled[Min(hits)]]
            ELSE IF Len(c.settled) = Len(c.paths)
            THEN [c EXCEPT !.res = "absent"]
            ELSE c

(***************************************************************************)
(* Actions.                                                                *)
(***************************************************************************)
\* locatePathSync(paths, o): the whole call
LocateSyncCall(paths, o) ==
    /\ LET r == LocatePathSync(NewCall("sync", paths, o), fs,
                               statCache, negativeCache, now)
       IN /\ calls' = Append(calls, r.call)
          /\ statCache' = r.sc
          /\ negativeCache' = r.nc
    /\ UNCHANGED <<now, fs, lastOp, recency>>

\* locatePath as a plain function: what checkType throws leaves the call
LocatePathCallNotAsync(paths, o) ==
    /\ LET c == NewCall("async", paths, o)
       IN calls' = Append(calls, IF CheckType(o.type) THEN Finder(c)
                                 ELSE [c EXCEPT !.res = "failed",
                                                !.raised = "thrown"])
    /\ UNCHANGED <<statCache, negativeCache, now, fs, lastOp, recency>>

\* locatePath(paths, o): checkType, then pLocate takes the list.  The
\* function is declared async, so what checkType throws rejects the promise
\* that the call returns.
LocatePathCall(paths, o) ==
    /\ LET c == NewCall("async", paths, o)
       IN calls' = Append(calls, IF CheckType(o.type) THEN Finder(c)
                                 ELSE [c EXCEPT !.res = "failed",
                                                !.raised = "rejected"])
    /\ UNCHANGED <<statCache, negativeCache, now, fs, lastOp, recency>>

\* pLocate starts the check of candidate i of call k: the tester runs up to
\* its await, so a cached answer settles the check at once.
StartCheck(k, i) ==
    /\ k \in 1..Len(calls)
    /\ LET c == calls[k] IN
       /\ c.kind = "async"
       /\ c.res # "failed"
       /\ i \in 1..Len(c.paths)
       /\ c.st[i] = "queued"
       /\ \A j \in 1..(i - 1) : c.st[j] # "queued"
       /\ Cardinality(Running(c)) < ConcurrencyLimit(c)
       /\ LET cached == CheckCaches(c.paths[i], c.o, statCache, negativeCache, now)
              c0 == [c EXCEPT !.expired = @ \/ cached.expired]
              c1 == IF cached.how = "probe"
                    THEN [c0 EXCEPT !.how[i] = "probe", !.st[i] = "running"]
                    ELSE [c0 EXCEPT !.how[i] = cached.how, !.st[i] = cached.value,
                                    !.settled = Append(@, i)]
          IN /\ calls' = [calls EXCEPT ![k] = Finder(c1)]
             /\ statCache' = cached.sc
             /\ negativeCache' = cached.nc
    /\ UNCHANGED <<now, fs, lastOp, recency>>

\* a stat that is dropped once its call has resolved
SettleCheckAbandoned(k, i) ==
    /\ k \in 1..Len(calls)
    /\ LET c == calls[k] IN
       /\ c.kind = "async"
       /\ c.res = "pending"
       /\ i \in 1..Len(c.paths)
       /\ c.st[i] = "running"
       /\ LET probed == ProbeAsync(c.paths[i], c.o, fs, statCache, negativeCache, now)
              c1 == [c EXCEPT !.st[i] = probed.value, !.settled = Append(@, i)]
          IN /\ calls' = [calls EXCEPT ![k] = Finder(c1)]
             /\ statCache' = probed.sc
             /\ negativeCache' = probed.nc
    /\ UNCHANGED <<now, fs, lastOp, recency>>

\* the stat of candidate i of call k completes
SettleCheck(k, i) ==
    /\ k \in 1..Len(calls)
    /\ LET c == calls[k] IN
       /\ c.kind = "async"
       /\ i \in 1..Len(c.paths)
       /\ c.st[i] = "running"
       /\ LET probed == ProbeAsync(c.paths[i], c.o, fs, statCache, negativeCache, now)
              c1 == [c EXCEPT !.st[i] = probed.value, !.settled = Append(@, i)]
          IN /\ calls' = [calls EXCEPT ![k] = Finder(c1)]
             /\ statCache' = probed.sc
             /\ negativeCache' = probed.nc
    /\ UNCHANGED <<now, fs, lastOp, recency>>

\* the clock advances
Tick ==
    /\ now < MaxTime
    /\ now' = now + 1
    /\ UNCHANGED <<statCache, negativeCache, fs, calls, lastOp, recency>>

\* another process changes a path
FsChange(p, kind) ==
    /\ fs[p] # kind
    /\ fs' = [fs EXCEPT ![p] = kind]
    /\ calls' = [k \in 1..Len(calls) |-> [calls[k] EXCEPT !.fsMoved = TRUE]]
    /\ UNCHANGED <<statCache, negativeCache, now, lastOp, recency>>

(***************************************************************************)
(* Specifications.                                                         *)
(***************************************************************************)
NoOp == [op |-> "none", key |-> "", value |-> "undefined", held |-> FALSE]

Options(type, allowSymlinks, concurrency, preserveOrder, useCache) ==
    [cwd |-> Cwd, type |-> type, allowSymlinks |-> allowSymlinks,
     concurrency |-> concurrency, preserveOrder |-> preserveOrder,
     useCache |-> useCache]

FsStates(paths, kinds) ==
    {f \in [ResolvedPaths -> kinds \cup {"none"}] :
        \A p \in ResolvedPaths \ paths : f[p] = "none"}

InitWith(fsStates) ==
    /\ statCache = << >>
    /\ negativeCache = << >>
    /\ now = 0
    /\ fs \in fsStates
    /\ calls = << >>
    /\ lastOp = NoOp
    /\ recency = << >>

(***************************************************************************)
(* Spec: one asynchronous call made by a fresh process, under every        *)
(* candidate list, filesystem, option and schedule of its checks.          *)
(* FairSpec adds what the event loop guarantees: a check that can start    *)
(* is started, and a probe in flight completes.                            *)
(***************************************************************************)
SpecCandidates == {"a", "b"}

SpecPaths == {ResolvedPath(Cwd, p) : p \in SpecCandidates}

SpecKinds == {"none", "file", "dir"}

SpecLists == SeqsUpTo(SpecCandidates, MaxLen)

AsyncOptions ==
    {Options(t, TRUE, n, po, u) :
        t \in TypeSelectors, n \in 0..MaxConcurrency,
        po \in {"undefined", "true", "false"}, u \in BOOLEAN}

Init == InitWith(FsStates(SpecPaths, SpecKinds))

Start == \E k \in 1..Len(calls), i \in 1..MaxLen : StartCheck(k, i)

Settle == \E k \in 1..Len(calls), i \in 1..MaxLen : SettleCheck(k, i)

Next ==
    \/ /\ calls = << >>
       /\ \E paths \in SpecLists, o \in AsyncOptions : LocatePathCall(paths, o)
    \/ Start
    \/ Settle
    \/ Tick

Spec == Init /\ [][Next]_vars

\* the same call with the clock standing still
FairNext ==
    \/ /\ calls = << >>
       /\ \E paths \in SpecLists, o \in AsyncOptions : LocatePathCall(paths, o)
    \/ Start
    \/ Settle

FairSpec == Init /\ [][FairNext]_vars /\ WF_vars(Start) /\ WF_vars(Settle)

(***************************************************************************)
(* SpecSync: a synchronous call, possibly after an earlier synchronous     *)
(* call has filled the caches and the filesystem or the clock has moved.   *)
(***************************************************************************)
SyncCandidates == {"a", "b", "/w/a"}

SyncLists == SeqsUpTo(SyncCandidates, MaxLen)

WarmLists == {<<"a", "b">>, <<"b", "a">>}

SyncOptions ==
    {Options(t, TRUE, 0, "undefined", u) : t \in TypeSelectors, u \in BOOLEAN}

WarmOptions == {o \in SyncOptions : o.useCache}

IsWarmUp(c) == c.kind = "sync" /\ c.paths \in WarmLists /\ c.o \in WarmOptions

\* the call under study is still to come
CallToCome == calls = << >> \/ (Len(calls) = 1 /\ IsWarmUp(calls[1]))

\* The clock and the filesystem move until the call under study is made.
SyncNext ==
    \/ /\ calls = << >>
       /\ \E paths \in WarmLists, o \in WarmOptions : LocateSyncCall(paths, o)
    \/ /\ CallToCome
       /\ \E paths \in SyncLists, o \in SyncOptions : LocateSyncCall(paths, o)
    \/ CallToCome /\ Tick
    \/ /\ CallToCome
       /\ \E p \in SpecPaths, kind \in SpecKinds : FsChange(p, kind)

SpecSync == Init /\ [][SyncNext]_vars

(***************************************************************************)
(* SpecCache: the LRUCache class by itself.  get, set and clear are        *)
(* applied to the positive cache in every order while the clock advances,  *)
(* and locateSync looks for a single candidate in between.  recency logs   *)
(* every successful get and set: the key, and for a set the time.          *)
(***************************************************************************)
CacheKeys == {CacheKey(ResolvedPath(Cwd, p), "file", TRUE) : p \in RelativeCandidates}

CacheValues == {"true", "false"}

CacheOption == Options("file", TRUE, 0, "undefined", TRUE)

Logged(key) == \E n \in 1..Len(recency) : recency[n].key = key

SetAt(key) == (CHOOSE e \in {recency[n] : n \in 1..Len(recency)} : e.key = key).setAt

\* the log after key was read (setAt stays as it was) or written (setAt is
\* now), without the keys the cache no longer holds
Touch(key, written, cache) ==
    SelectSeq(Append(SelectSeq(recency, LAMBDA e : e.key # key),
                     [key |-> key,
                      setAt |-> IF written \/ ~Logged(key) THEN now ELSE SetAt(key)]),
              LAMBDA e : Has(cache, e.key))

Untouched(cache) == SelectSeq(recency, LAMBDA e : Has(cache, e.key))

CacheGet(key) ==
    /\ LET r == LRUGet(statCache, key, now)
       IN /\ statCache' = r.cache
          /\ lastOp' = [op |-> "get", key |-> key, value |-> r.value,
                      held |-> Has(statCache, key)]
          /\ recency' = IF r.value # "undefined" THEN Touch(key, FALSE, r.cache)
                        ELSE Untouched(r.cache)
    /\ UNCHANGED <<negativeCache, now, fs, calls>>

CacheSet(key, value) ==
    /\ statCache' = LRUSet(statCache, key, value, now)
    /\ lastOp' = [op |-> "set", key |-> key, value |-> value,
                   held |-> Has(statCache, key)]
    /\ recency' = Touch(key, TRUE, statCache')
    /\ UNCHANGED <<negativeCache, now, fs, calls>>

CacheClear ==
    /\ statCache' = LRUClear(statCache)
    /\ lastOp' = [op |-> "clear", key |-> "", value |-> "undefined", held |-> FALSE]
    /\ recency' = Untouched(statCache')
    /\ UNCHANGED <<negativeCache, now, fs, calls>>

\* locateSync([path_]) with the default options; lastOp tells how the
\* candidate was decided
CacheLocate(path_) ==
    /\ LET r == LocatePathSync(NewCall("sync", <<path_>>, CacheOption), fs,
                               statCache, negativeCache, now)
           key == KeyOf(CacheOption, path_)
       IN /\ statCache' = r.sc
          /\ negativeCache' = r.nc
          /\ lastOp' = [op |-> "locate", key |-> key, value |-> r.call.how[1],
                      held |-> Has(statCache, key)]
          /\ recency' = IF r.call.how[1] = "pos" THEN Touch(key, FALSE, r.sc)
                        ELSE IF r.call.res = "found" THEN Touch(key, TRUE, r.sc)
                        ELSE Untouched(r.sc)
    /\ UNCHANGED <<now, fs, calls>>

CacheInit == InitWith(FsStates({ResolvedPath(Cwd, "a")}, {"file"}))

CacheNext ==
    \/ \E key \in CacheKeys : CacheGet(key)
    \/ \E key \in CacheKeys, value \in CacheValues : CacheSet(key, value)
    \/ CacheClear
    \/ CacheLocate("a")
    \/ Tick

SpecCache == CacheInit /\ [][CacheNext]_vars

(***************************************************************************)
(* SpecTwice: a fresh process calls one locator, and when the call has     *)
(* returned calls it again with the same candidates and options, caching   *)
(* enabled, on a filesystem that stays as it is.  The synchronous lists    *)
(* may name more paths than a cache holds.                                 *)
(***************************************************************************)
Injective(s) == \A i, j \in 1..Len(s) : s[i] = s[j] => i = j

TwiceSyncLists == {s \in SeqsUpTo(RelativeCandidates, MaxSize + 1) : Injective(s)}

TwiceSyncOptions == {Options("file", TRUE, 0, "undefined", TRUE)}

TwiceAsyncOptions ==
    {Options("file", TRUE, n, po, TRUE) :
        n \in {0, 1}, po \in {"undefined", "false"}}

TwiceInit == InitWith(FsStates(SpecPaths, {"file"}))

Again ==
    /\ Len(calls) = 1
    /\ calls[1].res # "pending"
    /\ \/ calls[1].kind = "sync" /\ LocateSyncCall(calls[1].paths, calls[1].o)
       \/ calls[1].kind = "async" /\ LocatePathCall(calls[1].paths, calls[1].o)

TwiceNext ==
    \/ /\ calls = << >>
       /\ \E paths \in TwiceSyncLists, o \in TwiceSyncOptions :
             LocateSyncCall(paths, o)
    \/ /\ calls = << >>
       /\ \E paths \in SpecLists, o \in TwiceAsyncOptions : LocatePathCall(paths, o)
    \/ Again
    \/ Start
    \/ Settle
    \/ Tick

SpecTwice == TwiceInit /\ [][TwiceNext]_vars

(***************************************************************************)
(* SpecErr: a call of either locator, with any type selector (a refused    *)
(* one included), either symlink mode and caching on or off, over a        *)
(* filesystem that also holds a symbolic link and a path that cannot be    *)
(* read, possibly after a synchronous call has filled the caches and the   *)
(* clock has moved.                                                        *)
(***************************************************************************)
ErrFsStates ==
    {f \in [ResolvedPaths -> Kinds] :
        /\ f[ResolvedPath(Cwd, "b")] \in {"none", "file"}
        /\ \A p \in ResolvedPaths \ SpecPaths : f[p] = "none"}

ErrWarmOptions ==
    {Options(t, TRUE, 0, "undefined", TRUE) : t \in {"file", "directory"}}

ErrOptions ==
    {Options(t, s, 0, "undefined", u) :
        t \in {"file", "directory"} \cup InvalidTypes, s \in BOOLEAN, u \in BOOLEAN}

ErrInit == InitWith(ErrFsStates)

IsErrWarmUp(c) == c.kind = "sync" /\ c.paths = <<"a", "b">> /\ c.o \in ErrWarmOptions

ErrCallToCome == calls = << >> \/ (Len(calls) = 1 /\ IsErrWarmUp(calls[1]))

ErrNext ==
    \/ /\ calls = << >>
       /\ \E o \in ErrWarmOptions : LocateSyncCall(<<"a", "b">>, o)
    \/ /\ ErrCallToCome
       /\ \E paths \in SpecLists, o \in ErrOptions : LocateSyncCall(paths, o)
    \/ /\ ErrCallToCome
       /\ \E paths \in SpecLists, o \in ErrOptions : LocatePathCall(paths, o)
    \/ Start
    \/ Settle
    \/ ErrCallToCome /\ Tick

SpecErr == ErrInit /\ [][ErrNext]_vars

(***************************************************************************)
(* SpecRace: checks of one key that overlap in time.  An asynchronous call *)
(* names the same path once or several times, relative and absolute;       *)
(* while its probes are in flight the path appears or disappears, the      *)
(* clock moves, and locateSync is called for the same path.                *)
(***************************************************************************)
RaceCandidates == {"a", "/w/a"}

RaceLists == SeqsUpTo(RaceCandidates, MaxLen) \ {<< >>}

RaceOption == Options("file", TRUE, 0, "undefined", TRUE)

RacePath == ResolvedPath(Cwd, "a")

RaceInit == InitWith(FsStates({RacePath}, {"file"}))

RaceNext ==
    \/ /\ calls = << >>
       /\ \E paths \in RaceLists : LocatePathCall(paths, RaceOption)
    \/ /\ Len(calls) = 1
       /\ LocateSyncCall(<<"a">>, RaceOption)
    \/ Start
    \/ Settle
    \/ Tick
    \/ /\ calls # << >>
       /\ \E kind \in {"none", "file"} : FsChange(RacePath, kind)

SpecRace == RaceInit /\ [][RaceNext]_vars

(***************************************************************************)
(* Claims.                                                                 *)
(***************************************************************************)
Async(c) == c.kind = "async" /\ c.res # "failed"

Ordered(c) == c.o.preserveOrder \in {"true", "undefined"}

Resolved(c) == c.res \in {"found", "absent"}

\* the candidates of c that the filesystem f holds with the requested type
Matching(c, f) ==
    {i \in 1..Len(c.paths) :
        LET stat == StatOf(f[ResolvedPath(c.o.cwd, c.paths[i])], c.o.allowSymlinks)
        IN CASE stat \in {"enoent", "error", "other"} -> FALSE
             [] stat = "file" -> c.o.type \in {"file", "both"}
             [] stat = "dir" -> c.o.type \in {"directory", "both"}}

\* c as it was before any of its candidates was examined
Fresh(c) ==
    [c EXCEPT !.st = [i \in 1..Len(c.paths) |-> "queued"],
              !.how = [i \in 1..Len(c.paths) |-> ""],
              !.settled = << >>, !.res = "pending", !.index = 0]

\* C1: a locateSync call made with both caches empty, or with
\* useCache = false, returns the lowest-index candidate that the filesystem
\* holds with the requested type, having probed it, and returns absent when
\* there is none; it examines no candidate after the one it returns.
C1_SyncFirstMatch ==
    \A k \in 1..Len(calls) :
        LET c == calls[k]
            m == Matching(c, fs)
        IN (c.kind = "sync" /\ c.res # "failed" /\ ~c.fsMoved
                /\ (c.cold \/ ~c.o.useCache))
           => /\ Resolved(c)
              /\ (m = {}) <=> (c.res = "absent")
              /\ c.res = "found" =>
                    /\ c.index = Min(m)
                    /\ c.how[c.index] = "probe"
                    /\ \A j \in (c.index + 1)..Len(c.paths) : c.how[j] = ""

\* a later candidate is returned after earlier ones were examined in vain,
\* and a call made over warm caches with useCache = false
C1_Witness ==
    /\ \E k \in 1..Len(calls) :
          /\ calls[k].kind = "sync" /\ calls[k].res = "found"
          /\ calls[k].index = 2 /\ calls[k].how[1] = "probe"
    /\ \E k \in 1..Len(calls) :
          /\ calls[k].kind = "sync" /\ ~calls[k].cold /\ ~calls[k].o.useCache
          /\ calls[k].res = "found"

\* C2: with preserveOrder true or unspecified, whatever the concurrency
\* bound and the order in which the checks settle, locate resolves to the
\* lowest-index candidate whose check settles true (absent when every check
\* settles false); made with empty caches or with useCache = false on an
\* unchanged filesystem, that is the candidate locateSync returns.
C2_OrderedEqualsSync ==
    \A k \in 1..Len(calls) :
        LET c == calls[k] IN
        (Async(c) /\ Ordered(c) /\ Resolved(c))
        => /\ c.res = "found" =>
                 /\ c.st[c.index] = "true"
                 /\ \A j \in 1..(c.index - 1) : c.st[j] = "false"
           /\ c.res = "absent" => \A j \in 1..Len(c.paths) : c.st[j] = "false"
           /\ (~c.fsMoved /\ (c.cold \/ ~c.o.useCache))
                 => ResultOf(c) =
                       ResultOf(LocatePathSync(Fresh(c), fs, << >>, << >>, now).call)

\* the winner is not the first check to settle true
C2_Witness ==
    \E k \in 1..Len(calls) :
        LET c == calls[k] IN
        /\ Async(c) /\ Ordered(c) /\ c.res = "found" /\ c.index = 1
        /\ Len(c.settled) >= 2 /\ c.settled[1] = 2 /\ c.st[2] = "true"

\* C3: with preserveOrder true, the call is never resolved with candidate i
\* while a check of a lower index is unsettled or has settled true; while
\* the lowest candidate not yet known to be a non-match is unsettled, the
\* call stays pending, even if a higher candidate has already settled true.
C3_OrderedWaits ==
    \A k \in 1..Len(calls) :
        LET c == calls[k] IN
        (Async(c) /\ Ordered(c))
        => /\ c.res = "found" => \A j \in 1..(c.index - 1) : c.st[j] = "false"
           /\ (\E j \in Unsettled(c) : \A m \in 1..(j - 1) : c.st[m] = "false")
                 => c.res = "pending"

\* a higher candidate has settled true and waits for a lower one
C3_Witness ==
    \E k \in 1..Len(calls) :
        LET c == calls[k] IN
        /\ Async(c) /\ Ordered(c) /\ c.res = "pending"
        /\ Len(c.paths) >= 2 /\ c.st[1] = "running" /\ c.st[2] = "true"

\* the first check, in settlement order, that settled true (0 when none has)
FirstTrue(c) ==
    LET hits == {n \in 1..Len(c.settled) : c.st[c.settled[n]] = "true"}
    IN IF hits = {} THEN 0 ELSE c.settled[Min(hits)]

\* C4: with preserveOrder false, the call resolves to the candidate whose
\* check is the first to settle true, whatever its index, and a check that
\* settles later leaves the resolved value as it is.
C4_UnorderedFirstSettled ==
    /\ [](\A k \in 1..Len(calls) :
            LET c == calls[k] IN
            (Async(c) /\ c.o.preserveOrder = "false")
            => /\ FirstTrue(c) # 0 => (c.res = "found" /\ c.index = FirstTrue(c))
               /\ c.res = "found" => c.index = FirstTrue(c))
    /\ [][\A k \in 1..Len(calls) :
            (Async(calls[k]) /\ calls[k].o.preserveOrder = "false"
                /\ Resolved(calls[k]))
            => (calls'[k].res = calls[k].res /\ calls'[k].index = calls[k].index)]_vars

\* the second candidate won, and the first settled true after it
C4_Witness ==
    \E k \in 1..Len(calls) :
        LET c == calls[k] IN
        /\ Async(c) /\ c.o.preserveOrder = "false"
        /\ c.res = "found" /\ c.index = 2
        /\ c.settled = <<2, 1>> /\ c.st[1] = "true"

\* C5: in a call with concurrency bound n, at most n checks are started and
\* unsettled at any time; with the bound unspecified, the next queued check
\* can always start.
C5_ConcurrencyBound ==
    \A k \in 1..Len(calls) :
        LET c == calls[k] IN
        Async(c)
        => /\ c.o.concurrency # 0 => Cardinality(Running(c)) <= c.o.concurrency
           /\ c.o.concurrency = 0 =>
                 \A i \in 1..Len(c.paths) :
                    (c.st[i] = "queued" /\ \A j \in 1..(i - 1) : c.st[j] # "queued")
                    => ENABLED StartCheck(k, i)

\* a bounded call holds a check back, and an unbounded one runs more checks
\* at once than any bound given
C5_Witness ==
    \E k \in 1..Len(calls) :
        LET c == calls[k] IN
        /\ Async(c) /\ c.o.concurrency # 0
        /\ Cardinality(Running(c)) = c.o.concurrency
        /\ \E i \in 1..Len(c.paths) : c.st[i] = "queued"

\* C6: once made, a call with a valid type selector resolves, provided
\* every check that can start does and every probe in flight completes;
\* it is never refused, and when every check has settled false it has
\* resolved to absent.
C6_EventuallyResolves ==
    /\ (calls # << >>) ~> (calls # << >> /\ Resolved(calls[1]))
    /\ [](\A k \in 1..Len(calls) :
            LET c == calls[k] IN
            c.kind = "async"
            => /\ c.res # "failed"
               /\ (\A i \in 1..Len(c.paths) : c.st[i] = "false") => c.res = "absent")

\* every check of a call of several candidates has settled false
C6_Witness ==
    \E k \in 1..Len(calls) :
        LET c == calls[k] IN
        /\ Async(c) /\ c.res = "absent" /\ Len(c.paths) >= 2
        /\ \E i \in 1..Len(c.paths) : c.how[i] = "probe"

\* C7: after any sequence of get, set and clear, a cache holds at most
\* maxSize entries, no key twice, and after set(key, value) the key is
\* present with that value.
C7_CapacityAndSet ==
    /\ Len(statCache) <= MaxSize
    /\ Len(negativeCache) <= MaxSize
    /\ Cardinality(KeySet(statCache)) = Len(statCache)
    /\ lastOp.op = "set" =>
          /\ Has(statCache, lastOp.key)
          /\ EntryOf(statCache, lastOp.key).value = lastOp.value

\* a new key has just been set into a cache that was full of other keys
C7_Witness ==
    /\ lastOp.op = "set" /\ ~lastOp.held
    /\ Len(statCache) = MaxSize
    /\ \A i \in 1..Len(statCache) : statCache[i].timestamp = now

\* C8: the cache iterates in recency order, the entry whose last successful
\* get or set is oldest first; a set of a new key into a full cache removes
\* that first entry and no other, and any other set removes nothing.
C8_RecencyOrder ==
    /\ [](KeysOf(statCache) = [n \in 1..Len(recency) |-> recency[n].key])
    /\ [][\A key \in CacheKeys, value \in CacheValues :
            CacheSet(key, value)
            => KeySet(statCache') =
                  IF ~Has(statCache, key) /\ Len(statCache) = MaxSize
                  THEN (KeySet(statCache) \ {recency[1].key}) \cup {key}
                  ELSE KeySet(statCache) \cup {key}]_vars

\* a get has moved an entry of a full cache behind one written after it
C8_Witness ==
    /\ Len(statCache) = MaxSize
    /\ statCache[Len(statCache)].timestamp < statCache[1].timestamp
    /\ lastOp.op = "get" /\ lastOp.key = statCache[Len(statCache)].key

\* C9: get returns an entry written at time T while now - T <= ttl, and
\* leaves its timestamp at T however often it is read; a get after T + ttl
\* returns undefined and removes the entry, and locateSync then probes the
\* filesystem for that key.
C9_Expiry ==
    [][/\ \A key \in CacheKeys :
            (CacheGet(key) /\ Has(statCache, key))
            => LET entry == EntryOf(statCache, key)
                   T == SetAt(key)
               IN /\ entry.timestamp = T
                  /\ now - T <= TTL =>
                        /\ lastOp'.value = entry.value
                        /\ Has(statCache', key)
                        /\ EntryOf(statCache', key).timestamp = T
                  /\ now - T > TTL =>
                        /\ lastOp'.value = "undefined"
                        /\ ~Has(statCache', key)
       /\ LET key == KeyOf(CacheOption, "a") IN
            (CacheLocate("a") /\ Has(statCache, key) /\ ~Has(negativeCache, key))
            => /\ EntryOf(statCache, key).timestamp = SetAt(key)
               /\ (lastOp'.value = "probe") <=> (now - SetAt(key) > TTL)]_vars

\* a get found its key in a full cache, returned undefined because the
\* entry's time was up, and removed it
C9_Witness ==
    /\ lastOp.op = "get" /\ lastOp.held /\ lastOp.value = "undefined"
    /\ ~Has(statCache, lastOp.key)
    /\ Len(statCache) = MaxSize - 1

Keys(c) == {KeyOf(c.o, c.paths[i]) : i \in 1..Len(c.paths)}

\* C10 as stated: the second of two successive calls with the same
\* candidates and options, useCache = true, probes nothing and returns
\* what the first returned.
C10_SecondCallFromCache ==
    Len(calls) = 2
    => /\ Probes(calls[2]) = 0
       /\ calls[2].res # "pending" => ResultOf(calls[2]) = ResultOf(calls[1])

\* C10, amended: the second call probes nothing provided the candidates
\* have at most maxSize distinct cache keys, no entry's time was up when
\* the second call read it, and every check of the first call had settled
\* when the second was made; it then returns what the first returned,
\* unless preserveOrder is false.
C10_SecondCallFromCacheWhenQuiet ==
    (/\ Len(calls) = 2
     /\ Cardinality(Keys(calls[2])) <= MaxSize
     /\ ~calls[2].expired
     /\ calls[2].quiet)
    => /\ Probes(calls[2]) = 0
       /\ (calls[2].res # "pending" /\ calls[2].o.preserveOrder # "false")
             => ResultOf(calls[2]) = ResultOf(calls[1])

\* a second asynchronous call has examined several candidates, all from
\* the caches, and a second synchronous call has found its candidate there
C10_Witness ==
    /\ Len(calls) = 2
    /\ calls[2].quiet /\ ~calls[2].expired
    /\ Cardinality(Keys(calls[2])) = MaxSize
    /\ calls[2].kind = "async"
    /\ calls[2].res = "found" /\ calls[2].index = 2
    /\ Unsettled(calls[2]) = {}
    /\ Probes(calls[1]) = MaxSize

\* the call that the step from this state to the next has made
Made == calls'[Len(calls')]

IsCall == Len(calls') = Len(calls) + 1

\* C11: a call of locate or locateSync whose type selector is not file,
\* directory or both fails; none of its candidates is ever examined or
\* probed, and the call leaves both caches exactly as they were.
C11_InvalidTypeFails ==
    /\ [](\A k \in 1..Len(calls) :
            LET c == calls[k] IN
            c.o.type \notin TypeSelectors
            => /\ c.res = "failed"
               /\ \A i \in 1..Len(c.paths) : c.how[i] = "" /\ c.st[i] = "queued")
    /\ [][(IsCall /\ Made.o.type \notin TypeSelectors)
            => (statCache' = statCache /\ negativeCache' = negativeCache)]_vars

\* locate has been refused a list of several candidates over caches that
\* hold entries
C11_Witness ==
    /\ Len(calls) = 2
    /\ calls[2].kind = "async" /\ calls[2].res = "failed"
    /\ Len(calls[2].paths) = MaxLen
    /\ statCache # << >> /\ negativeCache # << >>

\* the stat of candidate i of call c fails on filesystem f: the path is
\* missing or cannot be read
ProbeFails(c, i, f) ==
    StatOf(f[ResolvedPath(c.o.cwd, c.paths[i])], c.o.allowSymlinks)
        \in {"enoent", "error"}

HoldsFalse(cache, key, t) ==
    /\ Has(cache, key)
    /\ EntryOf(cache, key).value = "false"
    /\ EntryOf(cache, key).timestamp = t

\* C12: with a valid type selector neither locator fails; a candidate whose
\* probe fails (missing path, or any other error) is a non-match, is never
\* the result, and locateSync goes on to the next candidate; with caching
\* enabled the probe leaves the key in the negative cache with value false.
C12_ProbeErrorsAbsorbed ==
    /\ [](\A k \in 1..Len(calls) :
            LET c == calls[k] IN
            c.o.type \in TypeSelectors
            => /\ c.res # "failed" /\ c.raised = ""
               /\ \A i \in 1..Len(c.paths) :
                     (c.how[i] = "probe" /\ c.st[i] # "running" /\ ProbeFails(c, i, fs))
                     => /\ c.st[i] = "false"
                        /\ ~(c.res = "found" /\ c.index = i)
                        /\ (c.kind = "sync" /\ i < Len(c.paths)) => c.how[i + 1] # "")
    /\ [][/\ \A k \in 1..Len(calls) : \A i \in 1..Len(calls[k].paths) :
               (/\ calls[k].st[i] = "running" /\ calls'[k].st[i] # "running"
                /\ calls[k].o.useCache /\ ProbeFails(calls[k], i, fs))
               => /\ HoldsFalse(negativeCache', KeyOf(calls[k].o, calls[k].paths[i]), now)
                  /\ statCache' = statCache
          /\ (IsCall /\ Made.kind = "sync" /\ Made.o.useCache)
               => \A i \in 1..Len(Made.paths) :
                     (/\ Made.how[i] = "probe" /\ ProbeFails(Made, i, fs)
                      /\ Len(Made.paths) - i < MaxSize)
                     => HoldsFalse(negativeCache', KeyOf(Made.o, Made.paths[i]), now)]_vars

\* locate met a path it could not read, left it in the negative cache and
\* resolved to the next candidate
C12_Witness ==
    \E k \in 1..Len(calls) :
        LET c == calls[k] IN
        /\ fs[ResolvedPath(Cwd, "a")] = "denied"
        /\ c.kind = "async" /\ c.o.useCache
        /\ c.paths = <<"a", "b">> /\ c.how = <<"probe", "probe">>
        /\ c.res = "found" /\ c.index = 2
        /\ Has(negativeCache, KeyOf(c.o, "a"))

\* resolved paths, some of which end like the tail of a key
KeyPaths == ResolvedPaths \cup {"/w/a:file", "/w/a:file:true", "/w/a:true"}

KeyInputs == KeyPaths \X TypeSelectors \X BOOLEAN

\* candidate i of call c was answered from a cache
FromCache(c, i) == c.how[i] \in {"neg", "pos"}

\* a probe of the same resolved path under the same type selector and the
\* same symlink mode has completed in call d
ProbedAlike(d, c, i) ==
    /\ d.o.useCache
    /\ d.o.type = c.o.type /\ d.o.allowSymlinks = c.o.allowSymlinks
    /\ \E j \in 1..Len(d.paths) :
          /\ ResolvedPath(d.o.cwd, d.paths[j]) = ResolvedPath(c.o.cwd, c.paths[i])
          /\ d.how[j] = "probe" /\ d.st[j] # "running"

\* C13: two triples (resolved path, type selector, symlink flag) have the
\* same cache key only when they are the same triple (the key is a function
\* of the triple alone, so it is compared before any call is made); a
\* candidate is
\* answered from a cache only after a probe of the same path under the same
\* type and symlink mode; and a directory asked for as a file and then as a
\* directory is a non-match and then a match, probed both times, with one
\* entry in each cache.
C13_KeyIsolation ==
    /\ calls = << >> =>
          \A x, y \in KeyInputs :
             CacheKey(x[1], x[2], x[3]) = CacheKey(y[1], y[2], y[3]) => x = y
    /\ \A k \in 1..Len(calls) : \A i \in 1..Len(calls[k].paths) :
          FromCache(calls[k], i) => \E n \in 1..k : ProbedAlike(calls[n], calls[k], i)
    /\ (/\ Len(calls) = 2
        /\ fs[ResolvedPath(Cwd, "a")] = "dir"
        /\ calls[1].o.type = "file" /\ calls[2].o.type = "directory"
        /\ calls[2].o.allowSymlinks /\ calls[2].o.useCache
        /\ calls[1].paths # << >> /\ calls[1].paths[1] = "a"
        /\ calls[2].paths # << >>
        /\ calls[2].paths[1] = "a" /\ calls[2].st[1] \in {"true", "false"}
        /\ \A j \in 2..Len(calls[2].paths) : calls[2].st[j] \in {"queued", "running"})
       => /\ calls[1].st[1] = "false" /\ calls[2].st[1] = "true"
          /\ calls[2].how[1] = "probe"
          /\ Has(negativeCache, KeyOf(calls[1].o, "a"))
          /\ Has(statCache, KeyOf(calls[2].o, "a"))
          /\ KeyOf(calls[1].o, "a") # KeyOf(calls[2].o, "a")

\* locate asked for a directory where locateSync had cached the same path
\* as not being a file, probed it and found it
C13_Witness ==
    /\ Len(calls) = 2
    /\ fs[ResolvedPath(Cwd, "a")] = "dir"
    /\ calls[1].o.type = "file" /\ calls[2].o.type = "directory"
    /\ calls[2].kind = "async" /\ calls[2].o.allowSymlinks /\ calls[2].o.useCache
    /\ calls[2].paths = <<"a">> /\ calls[2].res = "found"
    /\ Len(negativeCache) >= 1 /\ Len(statCache) = 1

\* the cache holds the key and its entry's time is not up
Live(cache, key) == Has(cache, key) /\ now - EntryOf(cache, key).timestamp <= TTL

\* how a check that opens in this state must come out in the next, where
\* it is recorded as decided by how_ with answer st_
ConsultsInOrder(key, how_, st_) ==
    /\ Live(negativeCache, key) =>
          (how_ = "neg" /\ st_ = "false" /\ statCache' = statCache)
    /\ (~Live(negativeCache, key) /\ Live(statCache, key)) =>
          (how_ = "pos" /\ st_ = "true")
    /\ (how_ = "probe") <=> (~Live(negativeCache, key) /\ ~Live(statCache, key))

\* C14: with caching enabled a check asks the negative cache first: a live
\* negative entry makes the candidate a non-match without a probe and leaves
\* the positive cache untouched; otherwise a live positive entry makes it a
\* match without a probe; the filesystem is probed exactly when the key is
\* live in neither cache.
C14_NegativeThenPositive ==
    [][/\ \A k \in 1..Len(calls) : \A i \in 1..Len(calls[k].paths) :
            (calls[k].st[i] = "queued" /\ calls'[k].st[i] # "queued")
            => ConsultsInOrder(KeyOf(calls[k].o, calls[k].paths[i]),
                               calls'[k].how[i],
                               IF calls'[k].how[i] = "probe" THEN "running"
                               ELSE calls'[k].st[i])
       /\ (IsCall /\ Made.kind = "sync")
            => ConsultsInOrder(KeyOf(Made.o, Made.paths[1]), Made.how[1],
                               IF Made.how[1] = "probe" THEN "running"
                               ELSE Made.st[1])]_vars

\* locateSync answered from the negative cache while the positive cache
\* held a live entry for the same key
C14_Witness ==
    \E k \in 1..Len(calls) :
        LET c == calls[k]
            key == KeyOf(c.o, "a")
        IN /\ c.kind = "sync" /\ c.how[1] = "neg"
           /\ Has(statCache, key) /\ Has(negativeCache, key)
           /\ EntryOf(statCache, key).timestamp < c.t0
           /\ EntryOf(negativeCache, key).timestamp < c.t0

\* C15 as stated: no key is in both caches at once.
C15_NoSharedKey == KeySet(statCache) \cap KeySet(negativeCache) = {}

\* C15, amended: no key is in both caches at once as long as the
\* filesystem has not changed since the first call was made.
C15_NoSharedKeyWhileFsStill ==
    (calls = << >> \/ ~calls[1].fsMoved)
    => KeySet(statCache) \cap KeySet(negativeCache) = {}

\* several probes of one key were in flight together and have all written
\* the same cache, the filesystem not having changed
C15_Witness ==
    /\ calls # << >> /\ ~calls[1].fsMoved
    /\ Len(calls[1].paths) >= 2
    /\ \A i \in 1..Len(calls[1].paths) : calls[1].how[i] = "probe"
    /\ Unsettled(calls[1]) = {}
    /\ Len(calls) = 2 /\ calls[2].how[1] = "probe"
    /\ Len(statCache) + Len(negativeCache) = 1

\* the probe of candidate i of the call is in flight
InFlight(i) ==
    /\ calls # << >>
    /\ i \in 1..Len(calls[1].paths)
    /\ calls[1].st[i] = "running"

\* no check of the call is queued or in flight
AllSettled == calls # << >> /\ Unsettled(calls[1]) = {}

HoldsTrue(cache, key, t) ==
    /\ Has(cache, key)
    /\ EntryOf(cache, key).value = "true"
    /\ EntryOf(cache, key).timestamp = t

\* C16: once a probe of a locate call is in flight, every check of the call
\* comes to completion, whether or not the call has resolved meanwhile; a
\* probe that completes after the call has
\* resolved leaves the result as it is and, with caching enabled, writes its
\* outcome to the cache like any other.
C16_LateChecksComplete ==
    /\ (\E i \in 1..MaxLen : InFlight(i)) ~> AllSettled
    /\ [][\A i \in 1..MaxLen :
            (InFlight(i) /\ calls'[1].st[i] # "running" /\ calls[1].res # "pending")
            => LET c == calls[1]
                   key == KeyOf(c.o, c.paths[i])
               IN /\ calls'[1].res = c.res /\ calls'[1].index = c.index
                  /\ calls'[1].st[i] \in {"true", "false"}
                  /\ (c.o.useCache /\ calls'[1].st[i] = "true")
                        => HoldsTrue(statCache', key, now)
                  /\ (c.o.useCache /\ calls'[1].st[i] = "false")
                        => HoldsFalse(negativeCache', key, now)]_vars

\* the call resolved to its first candidate while the probe of the second
\* was in flight; that probe has since completed and is in the cache
C16_Witness ==
    /\ calls # << >>
    /\ LET c == calls[1] IN
       /\ c.kind = "async" /\ c.o.useCache
       /\ c.paths = <<"a", "b">> /\ c.how = <<"probe", "probe">>
       /\ c.res = "found" /\ c.index = 1 /\ c.settled = <<1, 2>>
       /\ Has(negativeCache, KeyOf(c.o, "b"))

\* C17: with caching enabled a probe that completes writes exactly one
\* cache under the candidate's key: the positive cache with true for a
\* match, the negative cache with false for a non-match; so the positive
\* cache holds only true and the negative cache only false.
C17_OutcomeInOneCache ==
    /\ [](/\ \A n \in 1..Len(statCache) : statCache[n].value = "true"
          /\ \A n \in 1..Len(negativeCache) : negativeCache[n].value = "false")
    /\ [][/\ \A k \in 1..Len(calls) : \A i \in 1..Len(calls[k].paths) :
               (/\ calls[k].st[i] = "running" /\ calls'[k].st[i] # "running"
                /\ calls[k].o.useCache)
               => LET key == KeyOf(calls[k].o, calls[k].paths[i]) IN
                  IF calls'[k].st[i] = "true"
                  THEN /\ HoldsTrue(statCache', key, now)
                       /\ negativeCache' = negativeCache
                  ELSE /\ HoldsFalse(negativeCache', key, now)
                       /\ statCache' = statCache
          /\ (IsCall /\ Made.kind = "sync" /\ Made.o.useCache)
               => \A i \in 1..Len(Made.paths) :
                     (Made.how[i] = "probe" /\ Len(Made.paths) - i < MaxSize)
                     => LET key == KeyOf(Made.o, Made.paths[i]) IN
                        IF Made.st[i] = "true"
                        THEN /\ HoldsTrue(statCache', key, now)
                             /\ ~Has(negativeCache', key)
                        ELSE /\ HoldsFalse(negativeCache', key, now)
                             /\ ~Has(statCache', key)]_vars

\* one locate call has probed a non-match and a match, and each is in its
\* cache
C17_Witness ==
    \E k \in 1..Len(calls) :
        LET c == calls[k] IN
        /\ c.kind = "async" /\ c.o.useCache /\ c.cold
        /\ Len(c.paths) = 2
        /\ c.how = <<"probe", "probe">> /\ c.st = <<"false", "true">>
        /\ Has(negativeCache, KeyOf(c.o, c.paths[1]))
        /\ Has(statCache, KeyOf(c.o, c.paths[2]))

\* C18 as stated: a refused type selector is raised in the caller's own
\* step by locate as by locateSync.
C18_RefusalThrown ==
    \A k \in 1..Len(calls) : calls[k].res = "failed" => calls[k].raised = "thrown"

\* C18, amended: locateSync throws the refusal out of the call itself;
\* locate returns a promise and delivers the refusal by rejecting it; each
\* does so in the step of the call, and nothing else raises.
C18_RefusalThrownOrRejected ==
    /\ [](\A k \in 1..Len(calls) :
            LET c == calls[k] IN
            /\ (c.res = "failed") <=> (c.o.type \notin TypeSelectors)
            /\ c.raised = IF c.res # "failed" THEN ""
                          ELSE IF c.kind = "sync" THEN "thrown" ELSE "rejected")
    /\ [][IsCall => (Made.res = "failed") = (Made.o.type \notin TypeSelectors)]_vars

\* locate was given a selector it refuses and has rejected its promise
C18_Witness ==
    \E k \in 1..Len(calls) :
        /\ calls[k].kind = "async" /\ calls[k].raised = "rejected"
        /\ calls[k].paths # << >>

\* C19: a call with useCache = false leaves both caches exactly as they
\* are, in the step of the call and in every step of its checks, and every
\* candidate it examines is probed, whatever the caches hold for its key.
C19_CacheOffLeavesCaches ==
    /\ [](\A k \in 1..Len(calls) :
            ~calls[k].o.useCache
            => \A i \in 1..Len(calls[k].paths) : calls[k].how[i] \in {"", "probe"})
    /\ [][/\ (IsCall /\ ~Made.o.useCache)
               => (statCache' = statCache /\ negativeCache' = negativeCache)
          /\ \A k \in 1..Len(calls) :
               (~calls[k].o.useCache /\ calls'[k] # calls[k])
               => (statCache' = statCache /\ negativeCache' = negativeCache)]_vars

\* locate, with caching off, has probed a candidate for whose key a cache
\* holds a live entry
C19_Witness ==
    /\ Len(calls) = 2
    /\ LET c == calls[2] IN
       /\ c.kind = "async" /\ ~c.o.useCache
       /\ c.paths # << >> /\ c.paths[1] = "a"
       /\ c.how[1] = "probe" /\ c.st[1] \in {"true", "false"}
       /\ \/ Live(negativeCache, KeyOf(c.o, "a"))
          \/ Live(statCache, KeyOf(c.o, "a"))

====
